---------------------------- MODULE Spec2Model ----------------------------
(***************************************************************************)
(* State-machine model of ToastifyPro v1.6.0 (src/unnamed/part_000):       *)
(* toast notifications with queue management and pause-on-hover timers,    *)
(* the process-wide confirmation dialog, and the global keyboard handler.  *)
(*                                                                         *)
(* Time is discrete.  One Tick advances every pending setTimeout by one    *)
(* unit.  An auto-dismiss timer whose delay has elapsed fires before time  *)
(* advances again, but other events (pointer, click, key) may still be     *)
(* handled first.  The removal timers of removeToast and removeOverlay     *)
(* only detach an element; they fire as part of the Tick that completes    *)
(* their delay.                                                            *)
(* The code reads the clock only as Date.now() - startTime, so the model   *)
(* keeps that difference (sinceStart) instead of absolute timestamps.      *)
(***************************************************************************)
EXTENDS Integers, Sequences, FiniteSets, TLC

(***************************************************************************)
(* Bounds of the model.                                                    *)
(***************************************************************************)
NumInst == 2        \* ToastifyPro instances that may be constructed
MaxToasts == 3      \* toasts that may be shown in one behaviour
TimedToasts == 2    \* the same, where toasts run timers (SpecTimer)
MaxConfs == 3       \* confirmation dialogs that may be created
HistConfs == 2      \* the same, where the event history is kept (SpecConf)
MaxAttached == 2    \* dialog elements attached at once when a dialog is opened
HistAttached == 1   \* the same, where the event history is kept (SpecConf)
MaxCalls == 2       \* result-handler invocations counted per dialog
MaxAge == 3         \* Date.now() - startTime is tracked up to this value
MaxHovers == 2      \* pointer-enter events handled per toast

(***************************************************************************)
(* Program constants, in ticks.  One tick stands for 1000 ms; a delay      *)
(* shorter than a tick is one tick.                                        *)
(***************************************************************************)
DefaultTimeout == 3 \* timeout: options.timeout || 3000
ExitDelay == 1      \* setTimeout(() => toast.remove(), 400)
OverlayDelay == 1   \* setTimeout(() => overlayElement.remove(), 300)

NoTimer == -1       \* toastData.timeout / startTime = null, no pending timer

Insts == 1..NumInst
ToastIds == 1..MaxToasts
ConfIds == 1..MaxConfs
\* DOM elements: toast t is element t, confirmation dialog d is element -d
ConfElem(d) == 0 - d
Elements == ToastIds \cup {ConfElem(d) : d \in ConfIds}

validTypes == {"success", "error", "info", "warning", "dark", "light"}

validPositions ==
  {"top-left", "top-right", "bottom-left", "bottom-right",
   "top-center", "bottom-center", "center"}

VARIABLES
  instances,                 \* sequence of defaultOptions, one per constructed instance
  activeToasts,              \* this.activeToasts of each instance: sequence of toasts
  container,                 \* children of .toastify-pro-container.<position>, DOM order
  toastData,                 \* the toastData record of each toast
  removeTimer,               \* pending removal timer of removeToast per element
  animation,                 \* exit animation set in the element's style, "none" before
  keyboard,                  \* window._toastifyProKeyboardSetup, keydown listeners added
  activeElement,             \* document.activeElement: a control of a dialog, or the body
  globalActiveConfirmation,  \* 0 (null) or the dialog whose control object it holds
  confData,                  \* closure state of each conf() call that built a dialog
  nextToast,                 \* number of toasts created so far
  nextConf,                  \* number of dialogs created so far
  ev,                        \* the event handled last (history, kept when cfg.history)
  cfg                        \* what a specification explores; never changes

vars == <<instances, activeToasts, container, toastData, removeTimer, animation, keyboard,
          activeElement, globalActiveConfirmation, confData, nextToast, nextConf, ev, cfg>>

\* The program state as one record, so that a handler's calls compose.
St ==
  [instances |-> instances, activeToasts |-> activeToasts, container |-> container,
   toastData |-> toastData, removeTimer |-> removeTimer, animation |-> animation,
   keyboard |-> keyboard, activeElement |-> activeElement,
   globalActiveConfirmation |-> globalActiveConfirmation, confData |-> confData,
   nextToast |-> nextToast, nextConf |-> nextConf]

Set(S, e) ==
  /\ instances' = S.instances
  /\ activeToasts' = S.activeToasts
  /\ container' = S.container
  /\ toastData' = S.toastData
  /\ removeTimer' = S.removeTimer
  /\ animation' = S.animation
  /\ keyboard' = S.keyboard
  /\ activeElement' = S.activeElement
  /\ globalActiveConfirmation' = S.globalActiveConfirmation
  /\ confData' = S.confData
  /\ nextToast' = S.nextToast
  /\ nextConf' = S.nextConf
  /\ ev' = IF cfg.history THEN e ELSE ev
  /\ cfg' = cfg

(***************************************************************************)
(* Sequence helpers.                                                       *)
(***************************************************************************)
IndexOf(s, x) ==
  IF \E k \in 1..Len(s) : s[k] = x
    THEN CHOOSE k \in 1..Len(s) : s[k] = x /\ \A j \in 1..(k-1) : s[j] # x
    ELSE 0

RemoveAt(s, k) == SubSeq(s, 1, k-1) \o SubSeq(s, k+1, Len(s))

Range(s) == {s[k] : k \in 1..Len(s)}

Min(a, b) == IF a < b THEN a ELSE b

(***************************************************************************)
(* DOM queries.                                                            *)
(***************************************************************************)
\* element.parentNode: the position of the container holding e, or "none"
parentNode(S, e) ==
  IF \E p \in validPositions : e \in Range(S.container[p])
    THEN CHOOSE p \in validPositions : e \in Range(S.container[p])
    ELSE "none"

Attached(S, e) == parentNode(S, e) # "none"

(***************************************************************************)
(* constructor(options): option defaults and position validation.          *)
(* An absent option is a field missing from the record.                    *)
(***************************************************************************)
Has(o, f) == f \in DOMAIN o

Constructor(options) ==
  [position |-> IF Has(options, "position") /\ options.position \in validPositions
                  THEN options.position ELSE "bottom-center",
   timeout |-> IF Has(options, "timeout") /\ options.timeout # 0
                 THEN options.timeout ELSE DefaultTimeout,
   pauseOnHover |-> IF Has(options, "pauseOnHover") THEN options.pauseOnHover ELSE TRUE,
   maxToasts |-> IF Has(options, "maxToasts") /\ options.maxToasts # 0
                   THEN options.maxToasts ELSE 0,
   newestOnTop |-> IF Has(options, "newestOnTop") THEN options.newestOnTop ELSE TRUE,
   primaryColor |-> Has(options, "primaryColor")]

\* { ...this.defaultOptions, ...opts }
Merge(defaults, opts) ==
  [f \in DOMAIN defaults |-> IF Has(opts, f) THEN opts[f] ELSE defaults[f]]

(***************************************************************************)
(* Toast records.                                                          *)
(***************************************************************************)
BlankToast ==
  [inst |-> 0,                 \* toast._toastInstance (0: toast not created)
   kind |-> "none",            \* type class of the element
   added |-> "none",           \* type class updateToast added beside "custom"
   timeout |-> FALSE,          \* toastData.timeout holds a timer id
   timer |-> NoTimer,          \* ticks until that timer fires, NoTimer if cleared or fired
   remainingTime |-> 0,
   sinceStart |-> NoTimer,     \* Date.now() - startTime, NoTimer while startTime is null
   isPaused |-> FALSE,
   hover |-> FALSE,            \* mouseenter/mouseleave listeners attached
   T |-> 0,                    \* options.timeout the toast was shown with (history)
   ran |-> 0,                  \* ticks during which its countdown was running (history)
   inside |-> FALSE,           \* the pointer is over the element (history)
   alternating |-> TRUE,       \* enter and leave events have alternated so far (history)
   enters |-> 0]               \* pointer-enter events handled so far (history)

(***************************************************************************)
(* removeToast(toast), called on instance i.                               *)
(***************************************************************************)
\* position.includes(word): the class names of the containers are the valid
\* positions, whose parts are these
Parts(position) ==
  CASE position = "top-left" -> {"top", "left"}
    [] position = "top-right" -> {"top", "right"}
    [] position = "top-center" -> {"top", "center"}
    [] position = "bottom-left" -> {"bottom", "left"}
    [] position = "bottom-right" -> {"bottom", "right"}
    [] position = "bottom-center" -> {"bottom", "center"}
    [] position = "center" -> {"center"}
    [] OTHER -> {}

includes(position, word) == word \in Parts(position)

\* the choice tried with the sides before top and bottom
swipeAnimationSidesFirst(position) ==
  IF includes(position, "left") THEN "carSwipeLeft"
  ELSE IF includes(position, "right") THEN "carSwipeRight"
  ELSE IF includes(position, "bottom") THEN "carSwipeBottom"
  ELSE IF includes(position, "top") THEN "carSwipeTop"
  ELSE IF includes(position, "center") THEN "carSwipeCenter"
  ELSE "carSwipeBottom"

swipeAnimation(position) ==
  IF includes(position, "bottom") THEN "carSwipeBottom"
  ELSE IF includes(position, "top") THEN "carSwipeTop"
  ELSE IF includes(position, "left") THEN "carSwipeLeft"
  ELSE IF includes(position, "right") THEN "carSwipeRight"
  ELSE IF includes(position, "center") THEN "carSwipeCenter"
  ELSE "carSwipeBottom"

\* removeToast without the look at toast.parentNode
removeToastUnguarded(S, i, e) ==
  LET toastIndex == IF i \in 1..Len(S.instances) THEN IndexOf(S.activeToasts[i], e) ELSE 0
      S1 == IF toastIndex > 0
              THEN [S EXCEPT !.toastData[e].timer = NoTimer,
                             !.activeToasts[i] = RemoveAt(@, toastIndex)]
              ELSE S
  IN [S1 EXCEPT !.removeTimer[e] = ExitDelay,
                !.animation[e] = swipeAnimation(parentNode(S, e))]

\* removeToast calling splice(toastIndex, 1) whatever findIndex returns:
\* splice(-1, 1) takes the last record out
removeToastSpliceUnchecked(S, i, e) ==
  IF ~Attached(S, e) THEN S
  ELSE
    LET toastIndex == IF i \in 1..Len(S.instances) THEN IndexOf(S.activeToasts[i], e) ELSE 0
        S1 == IF toastIndex > 0
                THEN [S EXCEPT !.toastData[e].timer = NoTimer,
                               !.activeToasts[i] = RemoveAt(@, toastIndex)]
              ELSE IF i \in 1..Len(S.instances) /\ S.activeToasts[i] # <<>>
                THEN [S EXCEPT !.activeToasts[i] = RemoveAt(@, Len(@))]
              ELSE S
    IN [S1 EXCEPT !.removeTimer[e] = IF @ = NoTimer THEN ExitDelay ELSE @,
                  !.animation[e] = swipeAnimation(parentNode(S, e))]

removeToast(S, i, e) ==
  IF ~Attached(S, e) THEN S
  ELSE
    LET toastIndex == IF i \in 1..Len(S.instances) THEN IndexOf(S.activeToasts[i], e) ELSE 0
        S1 == IF toastIndex > 0
                THEN [S EXCEPT !.toastData[e].timer = NoTimer,
                               !.activeToasts[i] = RemoveAt(@, toastIndex)]
                ELSE S
    IN [S1 EXCEPT !.removeTimer[e] = IF @ = NoTimer THEN ExitDelay ELSE @,
                  !.animation[e] = swipeAnimation(parentNode(S, e))]

(***************************************************************************)
(* show(): queue management, DOM insertion, tracking, timers.              *)
(***************************************************************************)
RECURSIVE Evict(_, _, _)
Evict(S, i, n) ==
  IF n <= 0 \/ S.activeToasts[i] = <<>> THEN S
  ELSE LET oldestToast == Head(S.activeToasts[i])
           S1 == [S EXCEPT !.activeToasts[i] = Tail(@)]
       IN Evict(removeToast(S1, i, oldestToast), i, n - 1)

QueueManagement(S, i, options) ==
  IF options.maxToasts > 0 /\ Len(S.activeToasts[i]) >= options.maxToasts
    THEN Evict(S, i, Len(S.activeToasts[i]) - options.maxToasts + 1)
    ELSE S

\* container.insertBefore(toast, firstChild) or container.appendChild(toast)
InsertToast(S, i, options, t) ==
  LET p == S.instances[i].position
  IN [S EXCEPT !.container[p] =
        IF options.newestOnTop /\ @ # <<>> THEN <<t>> \o @ ELSE Append(@, t)]

\* TrackToast starting the auto-remove timer whatever the timeout
TrackToastAlwaysTimed(S, i, options, t, kind) ==
  [S EXCEPT
     !.activeToasts[i] = Append(@, t),
     !.nextToast = t,
     !.toastData[t] =
        [BlankToast EXCEPT
           !.inst = i, !.kind = kind,
           !.remainingTime = options.timeout,
           !.hover = options.pauseOnHover /\ options.timeout > 0,
           !.timeout = TRUE,
           !.timer = options.timeout,
           !.sinceStart = 0,
           !.T = options.timeout]]

\* toastData, listeners and the auto-remove timer
TrackToast(S, i, options, t, kind) ==
  [S EXCEPT
     !.activeToasts[i] = Append(@, t),
     !.nextToast = t,
     !.toastData[t] =
        [BlankToast EXCEPT
           !.inst = i, !.kind = kind,
           !.remainingTime = options.timeout,
           !.hover = options.pauseOnHover /\ options.timeout > 0,
           !.timeout = options.timeout > 0,
           !.timer = IF options.timeout > 0 THEN options.timeout ELSE NoTimer,
           !.sinceStart = IF options.timeout > 0 THEN 0 ELSE NoTimer,
           !.T = options.timeout]]

show(S, i, kind, opts) ==
  LET options == Merge(S.instances[i], opts)
      t == S.nextToast + 1
  IN TrackToast(InsertToast(QueueManagement(S, i, options), i, options, t),
                i, options, t, kind)

\* A message is a value with its type and the text String() gives for it, a
\* sequence of characters.  message.trim():
RECURSIVE TrimLeft(_)
TrimLeft(s) == IF s # <<>> /\ Head(s) = " " THEN TrimLeft(Tail(s)) ELSE s

RECURSIVE TrimRight(_)
TrimRight(s) ==
  IF s # <<>> /\ s[Len(s)] = " " THEN TrimRight(SubSeq(s, 1, Len(s) - 1)) ELSE s

trim(s) == TrimRight(TrimLeft(s))

\* String(message) for a value that is not a string
ToText(message) == message.text

\* input validation that tests the message itself, not message.trim()
showMessageUntrimmed(S, i, message, kind, opts) ==
  IF message.text = <<>> THEN S ELSE show(S, i, kind, opts)

\* show(message, type, opts) from its first line: the input validation, then
\* the rest
showMessage(S, i, message, kind, opts) ==
  LET text == IF message.type # "string" THEN ToText(message) ELSE message.text
  IN IF trim(text) = <<>> THEN S ELSE show(S, i, kind, opts)

\* what show() returns: the control object, or nothing
showReturns(S, i, message, kind, opts) ==
  IF showMessage(S, i, message, kind, opts).nextToast # S.nextToast
    THEN "handle" ELSE "undefined"

\* show() when document.createElement, or the insertion into the container,
\* throws: the catch block logs the error, the steps before it have run
showFailing(S, i, kind, opts) ==
  QueueManagement(S, i, Merge(S.instances[i], opts))

\* showCustom(): the same without queue management
showCustom(S, i, opts) ==
  LET options == Merge(S.instances[i], opts)
      t == S.nextToast + 1
  IN TrackToast(InsertToast(S, i, options, t), i, options, t, "custom")

\* custom(): falls back to success() when no primary colour is known
custom(S, i, opts) ==
  IF Has(opts, "primaryColor") \/ S.instances[i].primaryColor
    THEN showCustom(S, i, opts)
    ELSE show(S, i, "success", opts)

\* the classes of a toast element that name a type
classList(d) == {d.kind} \cup (IF d.added # "none" THEN {d.added} ELSE {})

\* updateToast without the look at toast.parentNode
updateToastUnguarded(S, t, type) ==
  IF type \notin validTypes THEN S
  ELSE IF S.toastData[t].kind = "custom"
    THEN [S EXCEPT !.toastData[t].added = type]
    ELSE [S EXCEPT !.toastData[t].kind = type]

\* updateToast(toast, message, { type }): the type classes are replaced, the
\* class "custom" is not one of them and stays
updateToast(S, t, type) ==
  IF ~Attached(S, t) THEN S
  ELSE IF type \notin validTypes THEN S
  ELSE IF S.toastData[t].kind = "custom"
    THEN [S EXCEPT !.toastData[t].added = type]
    ELSE [S EXCEPT !.toastData[t].kind = type]

\* dismissAll(): removeToast on a snapshot of activeToasts
RECURSIVE RemoveEach(_, _, _)
RemoveEach(S, i, ts) ==
  IF ts = <<>> THEN S ELSE RemoveEach(removeToast(S, i, Head(ts)), i, Tail(ts))

\* dismissAll without the type filter
dismissAllUnfiltered(S, i, type) == RemoveEach(S, i, S.activeToasts[i])

\* type "" stands for null: no filter
dismissAll(S, i, type) ==
  RemoveEach(S, i, SelectSeq(S.activeToasts[i],
                             LAMBDA t : type = "" \/ type \in classList(S.toastData[t])))

getActiveCount(S, i) == Len(S.activeToasts[i])

(***************************************************************************)
(* Pause on hover.                                                         *)
(***************************************************************************)
\* mouseenter without clearTimeout(toastData.timeout)
mouseenterKeepsTimer(S, t) ==
  LET d == S.toastData[t]
  IN IF d.timeout
       THEN [S EXCEPT !.toastData[t].isPaused = TRUE,
                      !.toastData[t].remainingTime = @ - d.sinceStart]
       ELSE S

mouseenter(S, t) ==
  LET d == S.toastData[t]
  IN IF d.timeout
       THEN [S EXCEPT !.toastData[t].timer = NoTimer,
                      !.toastData[t].isPaused = TRUE,
                      !.toastData[t].remainingTime = @ - d.sinceStart]
       ELSE S

mouseleave(S, t) ==
  LET d == S.toastData[t]
  IN IF d.isPaused /\ d.remainingTime > 0
       THEN [S EXCEPT !.toastData[t].isPaused = FALSE,
                      !.toastData[t].sinceStart = 0,
                      !.toastData[t].timeout = TRUE,
                      !.toastData[t].timer = d.remainingTime]
       ELSE S

(***************************************************************************)
(* conf(): argument parsing (the four call patterns).                      *)
(* a2, a3 are the types of descriptionOrCallback and callback; onConfirm   *)
(* and onCancel tell whether the options object carries them.              *)
(***************************************************************************)
\* ParseConf keeping the callback parameter beside onConfirm/onCancel
ParseConfKeepsCallback(call) ==
  LET hasOpts == \/ call.a2 = "object"
                 \/ (call.a2 = "string" /\ call.a3 = "object")
  IN [onConfirm |-> hasOpts /\ call.onConfirm,
      onCancel |-> hasOpts /\ call.onCancel,
      resultCallback |->
        IF call.a2 = "function" /\ call.a3 = "none" THEN TRUE
        ELSE IF call.a2 = "string" /\ call.a3 = "function" THEN TRUE
        ELSE IF call.a2 = "object" THEN call.a3 = "function"
        ELSE FALSE]

ParseConf(call) ==
  LET hasOpts == \/ call.a2 = "object"
                 \/ (call.a2 = "string" /\ call.a3 = "object")
      split == hasOpts /\ (call.onConfirm \/ call.onCancel)
  IN [onConfirm |-> hasOpts /\ call.onConfirm,
      onCancel |-> hasOpts /\ call.onCancel,
      resultCallback |->
        IF call.a2 = "function" /\ call.a3 = "none" THEN TRUE
        ELSE IF call.a2 = "string" /\ call.a3 = "function" THEN TRUE
        ELSE IF call.a2 = "object" THEN (~split /\ call.a3 = "function")
        ELSE FALSE]

BlankConf ==
  [onConfirm |-> FALSE,       \* options.onConfirm is a function
   onCancel |-> FALSE,        \* options.onCancel is a function
   resultCallback |-> FALSE,  \* resultCallback is a function
   isLoading |-> FALSE,
   useLoading |-> FALSE,
   loadingClass |-> FALSE,    \* confirm button has class "loading" and is disabled
   cancelDisabled |-> FALSE,  \* cancel button disabled, close button pointer-events none
   overlay |-> FALSE,         \* overlayElement is attached to the body
   overlayTimer |-> NoTimer,  \* pending 300 ms removal of the overlay
   tabHandler |-> FALSE,      \* handleTabKey is registered on the document
   currentFocusIndex |-> 0,   \* index in focusableElements, counted from 0
   focusTimer |-> FALSE,      \* the timer that will call confirmBtn.focus() is pending
   focusRestore |-> FALSE,    \* previouslyFocused.focus() has been scheduled
   pending |-> 0,             \* handler results still awaited by handleConfirmation
   calls |-> 0,               \* invocations of its result handlers so far (history)
   auto |-> FALSE,            \* the one awaited result comes from a confirm activated
                              \* while open, not loading, setLoading never called (history)
   manual |-> FALSE,          \* the caller has called setLoading, through the handle or
                              \* from a handler (history)
   unified |-> 0,             \* invocations of resultCallback so far (history)
   optHandlers |-> FALSE,     \* the options of the call carry onConfirm or onCancel (history)
   cbGiven |-> FALSE]         \* the call passes a callback function (history)

(***************************************************************************)
(* The closures of one conf() call, for dialog d.                          *)
(***************************************************************************)
setLoading(S, d, loading) ==
  [S EXCEPT !.confData[d].useLoading = TRUE,
            !.confData[d].isLoading = loading,
            !.confData[d].loadingClass = loading,
            !.confData[d].cancelDisabled = loading]

removeOverlay(S, d) ==
  IF S.confData[d].overlay
    THEN [S EXCEPT !.confData[d].overlayTimer = IF @ = NoTimer THEN OverlayDelay ELSE @]
    ELSE S

\* closeConfirmation leaving globalActiveConfirmation as it is
closeConfirmationKeepsSlot(S, d) ==
  IF Attached(S, ConfElem(d))
    THEN removeToast(removeOverlay(S, d), 0, ConfElem(d))
    ELSE S

\* this.removeToast(toastElement) runs on the instance whose conf() built the
\* dialog; conf() pushes nothing on activeToasts, so the search there finds
\* nothing on any instance and the instance is left out (0).
closeConfirmation(S, d) ==
  IF Attached(S, ConfElem(d))
    THEN removeToast(removeOverlay([S EXCEPT !.globalActiveConfirmation = 0], d),
                     0, ConfElem(d))
    ELSE S

cleanupAndClose(S, d) ==
  closeConfirmation([S EXCEPT !.confData[d].tabHandler = FALSE,
                              !.confData[d].focusRestore = TRUE], d)

\* conf() when the global check finds an attached dialog: shake it, return it
ConfIsDuplicate(S) ==
  /\ S.globalActiveConfirmation # 0
  /\ Attached(S, ConfElem(S.globalActiveConfirmation))

\* conf() past the global check: build dialog d, register it, return its control object
\* conf() tracking the dialog in activeToasts, as show() and showCustom() do
confQueued(S, i, call) ==
  LET d == S.nextConf + 1
      parsed == ParseConf(call)
      p == IF ~Has(call, "position") THEN "center"
           ELSE IF call.position \in validPositions THEN call.position
           ELSE S.instances[i].position
      S1 == [S EXCEPT
               !.nextConf = d,
               !.container[p] = Append(@, ConfElem(d)),
               !.activeToasts[i] = Append(@, ConfElem(d)),
               !.globalActiveConfirmation = d,
               !.confData[d] =
                  [BlankConf EXCEPT !.onConfirm = parsed.onConfirm,
                                    !.onCancel = parsed.onCancel,
                                    !.resultCallback = parsed.resultCallback,
                                    !.overlay = TRUE,
                                    !.tabHandler = TRUE,
                                    !.currentFocusIndex = 0,
                                    !.focusTimer = TRUE,
                                    !.optHandlers = call.onConfirm \/ call.onCancel,
                                    !.cbGiven = "function" \in {call.a2, call.a3}]]
  IN IF call.loading THEN setLoading(S1, d, TRUE) ELSE S1

conf(S, i, call) ==
  LET d == S.nextConf + 1
      parsed == ParseConf(call)
      p == IF ~Has(call, "position") THEN "center"
           ELSE IF call.position \in validPositions THEN call.position
           ELSE S.instances[i].position
      S1 == [S EXCEPT
               !.nextConf = d,
               !.container[p] = Append(@, ConfElem(d)),
               !.globalActiveConfirmation = d,
               !.confData[d] =
                  [BlankConf EXCEPT !.onConfirm = parsed.onConfirm,
                                    !.onCancel = parsed.onCancel,
                                    !.resultCallback = parsed.resultCallback,
                                    !.overlay = TRUE,
                                    !.tabHandler = TRUE,
                                    !.currentFocusIndex = 0,
                                    !.focusTimer = TRUE,
                                    !.optHandlers = call.onConfirm \/ call.onCancel,
                                    !.cbGiven = "function" \in {call.a2, call.a3}]]
  IN IF call.loading THEN setLoading(S1, d, TRUE) ELSE S1

\* conf() with a message that is not a string, past the global check: the
\* overlay is created and attached, then message.substring throws and the
\* catch block logs; no dialog element is attached, nothing is registered
confFailing(S, i, call) ==
  LET d == S.nextConf + 1
  IN [S EXCEPT !.nextConf = d,
               !.confData[d] = [BlankConf EXCEPT !.overlay = TRUE]]

(***************************************************************************)
(* Focus inside a dialog.                                                  *)
(***************************************************************************)
focusableElements == <<"cancel", "confirm", "close">>

Body == [d |-> 0, c |-> "body"]

\* button.focus(): nothing happens on a detached or disabled button
focus(S, d, c) ==
  IF /\ Attached(S, ConfElem(d))
     /\ ~(c = "confirm" /\ S.confData[d].loadingClass)
     /\ ~(c = "cancel" /\ S.confData[d].cancelDisabled)
    THEN [S EXCEPT !.activeElement = [d |-> d, c |-> c]]
    ELSE S

\* handleTabKey of dialog d on a keydown event with key Tab
handleTabKey(S, d, shiftKey) ==
  IF S.confData[d].tabHandler /\ Attached(S, ConfElem(d))
    THEN LET n == Len(focusableElements)
             k == IF shiftKey THEN (S.confData[d].currentFocusIndex - 1 + n) % n
                  ELSE (S.confData[d].currentFocusIndex + 1) % n
         IN focus([S EXCEPT !.confData[d].currentFocusIndex = k], d, focusableElements[k + 1])
    ELSE S

\* the listeners run in the order of their registration
RECURSIVE TabKeydown(_, _, _)
TabKeydown(S, d, shiftKey) ==
  IF d > S.nextConf THEN S ELSE TabKeydown(handleTabKey(S, d, shiftKey), d + 1, shiftKey)

(***************************************************************************)
(* handleConfirmation(confirmed).  A handler invocation is described by    *)
(* what the handler does with the controls it is given before returning    *)
(* (sync) and by how it returns (result).                                  *)
(***************************************************************************)
SyncEffects == {"none", "setLoadingTrue", "setLoadingFalse", "close"}
Results == {"value", "promise", "throw"}

RunSync(S, d, sync) ==
  IF sync = "setLoadingTrue" THEN setLoading(S, d, TRUE)
  ELSE IF sync = "setLoadingFalse" THEN setLoading(S, d, FALSE)
  ELSE IF sync = "close" THEN closeConfirmation(S, d)
  ELSE S

\* InvokeConfirmHandler without the automatic setLoading(true) before the await
InvokeWithoutAutoLoading(S, d, sync, result) ==
  LET S1 == RunSync([S EXCEPT !.confData[d].calls = @ + 1], d, sync)
  IN IF result = "throw"
       THEN closeConfirmation(setLoading(S1, d, FALSE), d)
     ELSE IF result = "promise"
       THEN [S1 EXCEPT !.confData[d].pending = @ + 1]
     ELSE IF ~S1.confData[d].useLoading THEN closeConfirmation(S1, d) ELSE S1

\* InvokeConfirmHandler closing after a plain return whatever useLoading is
InvokeClosingAfterReturn(S, d, sync, result) ==
  LET S1 == RunSync([S EXCEPT !.confData[d].calls = @ + 1], d, sync)
  IN IF result = "throw"
       THEN closeConfirmation(setLoading(S1, d, FALSE), d)
     ELSE IF result = "promise"
       THEN LET S2 == IF ~S1.confData[d].useLoading THEN setLoading(S1, d, TRUE) ELSE S1
            IN [S2 EXCEPT !.confData[d].pending = @ + 1]
     ELSE closeConfirmation(S1, d)

\* InvokeConfirmHandler leaving the dialog open after a plain return
InvokeKeepingOpenAfterReturn(S, d, sync, result) ==
  LET S1 == RunSync([S EXCEPT !.confData[d].calls = @ + 1], d, sync)
  IN IF result = "throw"
       THEN closeConfirmation(setLoading(S1, d, FALSE), d)
     ELSE IF result = "promise"
       THEN LET S2 == IF ~S1.confData[d].useLoading THEN setLoading(S1, d, TRUE) ELSE S1
            IN [S2 EXCEPT !.confData[d].pending = @ + 1]
     ELSE S1

\* the try/catch around onConfirm(...) or resultCallback(true, ...), up to the await
InvokeConfirmHandler(S, d, sync, result) ==
  LET S1 == RunSync([S EXCEPT !.confData[d].calls = @ + 1], d, sync)
  IN IF result = "throw"
       THEN closeConfirmation(setLoading(S1, d, FALSE), d)
     ELSE IF result = "promise"
       THEN LET S2 == IF ~S1.confData[d].useLoading THEN setLoading(S1, d, TRUE) ELSE S1
            IN [S2 EXCEPT !.confData[d].pending = @ + 1]
     ELSE IF ~S1.confData[d].useLoading THEN closeConfirmation(S1, d) ELSE S1

handleConfirmationTrue(S, d, sync, result) ==
  IF S.confData[d].onConfirm
    THEN InvokeConfirmHandler(S, d, sync, result)
  ELSE IF S.confData[d].resultCallback
    THEN InvokeConfirmHandler([S EXCEPT !.confData[d].unified = @ + 1], d, sync, result)
  ELSE closeConfirmation(S, d)

\* a thrown onCancel / resultCallback(false) is caught and logged: no state effect
handleConfirmationFalse(S, d) ==
  IF S.confData[d].isLoading THEN S
  ELSE
    LET n == (IF S.confData[d].onCancel THEN 1 ELSE 0)
             + (IF S.confData[d].resultCallback THEN 1 ELSE 0)
    IN closeConfirmation([S EXCEPT
          !.confData[d].calls = @ + n,
          !.confData[d].unified = @ + (IF S.confData[d].resultCallback THEN 1 ELSE 0)], d)

\* the cancel branch without its try/catch and awaiting what the handler
\* returns: a throw leaves handleConfirmation before closeConfirmation(), an
\* awaitable defers it
cancelUncaught(S, d, result) ==
  LET n == (IF S.confData[d].onCancel THEN 1 ELSE 0)
           + (IF S.confData[d].resultCallback THEN 1 ELSE 0)
      S1 == [S EXCEPT
               !.confData[d].calls = @ + n,
               !.confData[d].unified = @ + (IF S.confData[d].resultCallback THEN 1 ELSE 0)]
  IN IF S.confData[d].isLoading THEN [state |-> S, thrown |-> FALSE]
     ELSE IF n > 0 /\ result = "throw" THEN [state |-> S1, thrown |-> TRUE]
     ELSE IF n > 0 /\ result = "promise"
       THEN [state |-> [S1 EXCEPT !.confData[d].pending = @ + 1], thrown |-> FALSE]
     ELSE [state |-> closeConfirmation(S1, d), thrown |-> FALSE]

\* handleConfirmation(false) with a cancel handler that returns a value,
\* returns an awaitable or throws: the call is inside try/catch and what it
\* returns is not used; thrown tells whether an error leaves handleConfirmation
cancel(S, d, result) ==
  [state |-> handleConfirmationFalse(S, d), thrown |-> FALSE]

\* continuation after "await result" when the promise is fulfilled
AfterAwait(S, d) ==
  LET S1 == [S EXCEPT !.confData[d].pending = @ - 1]
  IN IF Attached(S1, ConfElem(d))
       THEN closeConfirmation(setLoading(S1, d, FALSE), d)
       ELSE S1

\* AfterReject without the forced setLoading(false)
AfterRejectKeepsLoading(S, d) ==
  closeConfirmation([S EXCEPT !.confData[d].pending = @ - 1], d)

\* the catch block when "await result" throws
AfterReject(S, d) ==
  closeConfirmation(setLoading([S EXCEPT !.confData[d].pending = @ - 1], d, FALSE), d)

(***************************************************************************)
(* The global keydown listener: Escape.                                    *)
(***************************************************************************)
\* last element of container.querySelectorAll('.toastify-pro:not(.confirmation)')
NonConf(s) == SelectSeq(s, LAMBDA e : e > 0)

RECURSIVE EscapeContainers(_, _)
EscapeContainers(S, ps) ==
  IF ps = {} THEN S
  ELSE LET p == CHOOSE q \in ps : TRUE
           toasts == NonConf(S.container[p])
           S1 == IF toasts # <<>>
                   THEN LET lastToast == toasts[Len(toasts)]
                        IN removeToast(S, S.toastData[lastToast].inst, lastToast)
                   ELSE S
       IN EscapeContainers(S1, ps \ {p})

\* escape without the look for a loading confirm button
escapeIgnoringLoading(S) ==
  IF S.globalActiveConfirmation # 0
    THEN cleanupAndClose(S, S.globalActiveConfirmation)
    ELSE EscapeContainers(S, validPositions)

escape(S) ==
  IF S.globalActiveConfirmation # 0
    THEN IF ~S.confData[S.globalActiveConfirmation].loadingClass
           THEN cleanupAndClose(S, S.globalActiveConfirmation)
           ELSE S
    ELSE EscapeContainers(S, validPositions)

(***************************************************************************)
(* Inputs.                                                                 *)
(***************************************************************************)
CtorOptions ==
  {[position |-> "top-right", maxToasts |-> 1],
   [position |-> "top-right", maxToasts |-> 2, newestOnTop |-> FALSE, timeout |-> 2],
   [timeout |-> 0, maxToasts |-> 0]}

ShowOpts ==
  {[description |-> "text"], [timeout |-> 0], [timeout |-> 1], [timeout |-> 2]}

Types == {"success", "error"}

\* the four call patterns, with and without handlers
ConfCalls ==
  {[a2 |-> "function", a3 |-> "none", onConfirm |-> FALSE, onCancel |-> FALSE, loading |-> FALSE],
   [a2 |-> "object", a3 |-> "none", onConfirm |-> TRUE, onCancel |-> TRUE, loading |-> FALSE],
   [a2 |-> "object", a3 |-> "none", onConfirm |-> TRUE, onCancel |-> TRUE, loading |-> TRUE],
   [a2 |-> "string", a3 |-> "object", onConfirm |-> FALSE, onCancel |-> FALSE, loading |-> FALSE]}

\* the call patterns with every combination of onConfirm, onCancel and a
\* callback function
ShapeCalls ==
  {[a2 |-> "function", a3 |-> "none", onConfirm |-> FALSE, onCancel |-> FALSE, loading |-> FALSE],
   [a2 |-> "string", a3 |-> "function", onConfirm |-> FALSE, onCancel |-> FALSE, loading |-> FALSE],
   [a2 |-> "string", a3 |-> "object", onConfirm |-> FALSE, onCancel |-> FALSE, loading |-> FALSE],
   [a2 |-> "string", a3 |-> "object", onConfirm |-> TRUE, onCancel |-> TRUE, loading |-> FALSE]}
  \cup [a2 : {"object"}, a3 : {"none", "function"}, onConfirm : BOOLEAN,
         onCancel : BOOLEAN, loading : {FALSE}]

\* messages: strings, blank or not, and values that are not strings
Messages ==
  {[type |-> "string", text |-> <<"a">>],
   [type |-> "string", text |-> <<>>],
   [type |-> "string", text |-> <<" ", " ">>],
   [type |-> "string", text |-> <<" ", "a", " ">>],
   [type |-> "array", text |-> <<>>],
   [type |-> "array", text |-> <<" ">>],
   [type |-> "number", text |-> <<"7">>]}

E(op, id) == [op |-> op, id |-> id, result |-> ""]

Created(t) == toastData[t].inst # 0
ConfCreated(d) == d <= nextConf

(***************************************************************************)
(* setupKeyboardNavigation(), called by every constructor.                 *)
(***************************************************************************)
\* setupKeyboardNavigation without the look at window._toastifyProKeyboardSetup
setupKeyboardNavigationEveryTime(k) ==
  [setup |-> TRUE, listeners |-> k.listeners + 1]

setupKeyboardNavigation(k) ==
  IF k.setup THEN k ELSE [setup |-> TRUE, listeners |-> k.listeners + 1]

RECURSIVE SetupTimes(_, _)
SetupTimes(k, n) == IF n = 0 THEN k ELSE SetupTimes(setupKeyboardNavigation(k), n - 1)

\* one keydown event with key Escape: every registered listener handles it
RECURSIVE Keydown(_, _)
Keydown(S, n) == IF n = 0 THEN S ELSE Keydown(escape(S), n - 1)

(***************************************************************************)
(* Initial states.  Start(c): the module is loaded, nothing is constructed.*)
(* Built(c, os): instances have been constructed with the options os.      *)
(***************************************************************************)
Built(c, os) ==
  /\ instances = [k \in 1..Len(os) |-> Constructor(os[k])]
  /\ activeToasts = [i \in Insts |-> <<>>]
  /\ container = [p \in validPositions |-> <<>>]
  /\ toastData = [t \in ToastIds |-> BlankToast]
  /\ removeTimer = [e \in Elements |-> NoTimer]
  /\ animation = [e \in Elements |-> "none"]
  /\ keyboard = SetupTimes([setup |-> FALSE, listeners |-> 0], Len(os))
  /\ activeElement = Body
  /\ globalActiveConfirmation = 0
  /\ confData = [d \in ConfIds |-> BlankConf]
  /\ nextToast = 0
  /\ nextConf = 0
  /\ ev = E("init", 0)
  /\ cfg = c

Start(c) == Built(c, <<>>)

(***************************************************************************)
(* Actions: one per API call, DOM event, timer or promise settlement.      *)
(***************************************************************************)
New(options) ==
  /\ Len(instances) < NumInst
  /\ Set([St EXCEPT !.instances = Append(@, Constructor(options)),
                    !.keyboard = setupKeyboardNavigation(@)],
         E("new", Len(instances) + 1))

\* show() and the wrappers success(), error(), ...: show(msg, type, opts)
Show(i, kind, opts) ==
  /\ i \in 1..Len(instances)
  /\ nextToast < cfg.toasts
  /\ Set(show(St, i, kind, opts), E("show", nextToast + 1))

\* show() with any message
ShowMessage(i, message, kind, opts) ==
  /\ i \in 1..Len(instances)
  /\ nextToast < cfg.toasts \/ showReturns(St, i, message, kind, opts) = "undefined"
  /\ Set(showMessage(St, i, message, kind, opts),
         [op |-> "showMessage", id |-> i,
          result |-> showReturns(St, i, message, kind, opts)])

\* a show() call during which the creation or the insertion of the element fails
ShowFails(i, kind, opts) ==
  /\ i \in 1..Len(instances)
  /\ Set(showFailing(St, i, kind, opts), E("showFails", 0))

Custom(i, opts) ==
  /\ i \in 1..Len(instances)
  /\ nextToast < cfg.toasts
  /\ Set(custom(St, i, opts), E("custom", nextToast + 1))

\* handle.dismiss() or the toast's close button
Dismiss(t) ==
  /\ Created(t)
  /\ Set(removeToast(St, toastData[t].inst, t), E("dismiss", t))

DismissAll(i, type) ==
  /\ i \in 1..Len(instances)
  /\ Set(dismissAll(St, i, type), [op |-> "dismissAll", id |-> i, result |-> type])

\* handle.update(message, { type })
Update(t, type) ==
  /\ Created(t)
  /\ Set(updateToast(St, t, type), E("update", t))

\* the pointer enters or leaves an attached toast; without the listeners
\* (hover) the event reaches no code
MouseEnter(t) ==
  /\ Created(t) /\ Attached(St, t)
  /\ IF toastData[t].hover
       THEN /\ toastData[t].enters < MaxHovers
            /\ Set([mouseenter(St, t) EXCEPT
                      !.toastData[t].inside = TRUE,
                      !.toastData[t].enters = @ + 1,
                      !.toastData[t].alternating = @ /\ ~toastData[t].inside],
                   E("mouseenter", t))
       ELSE Set(St, E("mouseenter", t))

MouseLeave(t) ==
  /\ Created(t) /\ Attached(St, t)
  /\ IF toastData[t].hover
       THEN Set([mouseleave(St, t) EXCEPT
                   !.toastData[t].inside = FALSE,
                   !.toastData[t].alternating = @ /\ toastData[t].inside],
                E("mouseleave", t))
       ELSE Set(St, E("mouseleave", t))

\* the auto-remove timer of toast t fires
TimerFire(t) ==
  /\ toastData[t].timer = 0
  /\ Set(removeToast([St EXCEPT !.toastData[t].timer = NoTimer], toastData[t].inst, t),
         E("timer", t))

Dec(x) == IF x > 0 THEN x - 1 ELSE x

\* Records no handler can reach any more are dropped.  A toast whose element
\* is detached and whose timer is gone keeps only the fact that it existed.  A
\* dialog whose element is detached can no longer be clicked or closed: only
\* the continuation of an awaited handler result may still run, and it reads
\* and writes the loading state alone.
GoneToast(S, t) ==
  S.toastData[t].inst # 0 /\ ~Attached(S, t) /\ S.toastData[t].timer = NoTimer

DetachedConf(S, d) == d <= S.nextConf /\ ~Attached(S, ConfElem(d))

GoneConf(S, d) ==
  DetachedConf(S, d) /\ S.confData[d].pending = 0 /\ ~S.confData[d].overlay

Collect(S) ==
  [S EXCEPT
     !.toastData = [t \in ToastIds |->
        IF GoneToast(S, t) THEN [BlankToast EXCEPT !.inst = S.toastData[t].inst] ELSE @[t]],
     !.confData = [d \in ConfIds |->
        IF GoneConf(S, d) THEN BlankConf
        ELSE IF DetachedConf(S, d)
          THEN [BlankConf EXCEPT !.isLoading = S.confData[d].isLoading,
                                 !.loadingClass = S.confData[d].loadingClass,
                                 !.cancelDisabled = S.confData[d].cancelDisabled,
                                 !.overlay = S.confData[d].overlay,
                                 !.overlayTimer = S.confData[d].overlayTimer,
                                 !.pending = S.confData[d].pending,
                                 !.auto = S.confData[d].auto]
        ELSE @[d]]]

\* the removal timers that complete: if (toast.parentNode) toast.remove(), and
\* if (overlayElement && overlayElement.parentNode) overlayElement.remove()
FireRemovals(S) ==
  [S EXCEPT
     !.container = [p \in validPositions |->
        SelectSeq(@[p], LAMBDA e : S.removeTimer[e] # 1)],
     !.removeTimer = [e \in Elements |-> IF @[e] = 1 THEN NoTimer ELSE Dec(@[e])],
     !.animation = [e \in Elements |-> IF S.removeTimer[e] = 1 THEN "none" ELSE @[e]],
     !.activeElement = IF @.d # 0 /\ S.removeTimer[ConfElem(@.d)] = 1 THEN Body ELSE @,
     !.confData = [d \in ConfIds |->
        [@[d] EXCEPT !.overlay = @ /\ S.confData[d].overlayTimer # 1,
                     !.overlayTimer = IF @ = 1 THEN NoTimer ELSE Dec(@)]]]

\* one tick of time passes
Tick ==
  /\ \A t \in ToastIds : toastData[t].timer # 0
  /\ Set(Collect(FireRemovals([St EXCEPT
            !.toastData = [t \in ToastIds |->
               [@[t] EXCEPT
                  !.timer = Dec(@),
                  !.ran = IF toastData[t].timer > 0 THEN @ + 1 ELSE @,
                  !.sinceStart = IF @ # NoTimer /\ toastData[t].hover /\ Attached(St, t)
                                   THEN Min(@ + 1, MaxAge) ELSE @]]])),
         E("tick", 0))

\* the Escape key is pressed: the keydown listeners exist once an instance has
\* been constructed
Escape ==
  /\ keyboard.listeners > 0
  /\ Set(Keydown(St, keyboard.listeners), E("escape", globalActiveConfirmation))

Conf(i, call) ==
  /\ i \in 1..Len(instances)
  /\ IF ConfIsDuplicate(St)
       THEN Set(St, E("confDuplicate", globalActiveConfirmation))
       ELSE /\ nextConf < cfg.confs
            /\ Cardinality({d \in ConfIds : Attached(St, ConfElem(d))}) < cfg.attached
            /\ Set(conf(St, i, call), E("conf", nextConf + 1))

\* conf(message, ...) with a message that is not a string
ConfFails(i, call) ==
  /\ i \in 1..Len(instances)
  /\ IF ConfIsDuplicate(St)
       THEN Set(St, E("confDuplicate", globalActiveConfirmation))
       ELSE /\ nextConf < cfg.confs
            /\ Set(confFailing(St, i, call), E("confFails", nextConf + 1))

\* the Tab key is pressed, with or without Shift
Tab(shiftKey) ==
  /\ shiftKey \in BOOLEAN
  /\ Set(TabKeydown(St, 1, shiftKey), E(IF shiftKey THEN "shiftTab" ELSE "tab", 0))

\* the timer started by conf() fires: confirmBtn.focus()
FocusTimer(d) ==
  /\ confData[d].focusTimer
  /\ Set(focus([St EXCEPT !.confData[d].focusTimer = FALSE], d, "confirm"), E("focus", d))

\* a dialog is open from conf() until something closes it (its exit begins)
Open(S, d) ==
  d <= S.nextConf /\ Attached(S, ConfElem(d)) /\ S.removeTimer[ConfElem(d)] = NoTimer

\* the confirm button: if (!isLoading) handleConfirmation(true)
ConfirmClick(d, sync, result) ==
  /\ ConfCreated(d) /\ Attached(St, ConfElem(d))
  /\ confData[d].calls < MaxCalls
  /\ LET blocked == confData[d].isLoading
         invoked == ~blocked /\ (confData[d].onConfirm \/ confData[d].resultCallback)
         auto == /\ cfg.history
                 /\ invoked /\ result = "promise" /\ sync \in {"none", "close"}
                 /\ Open(St, d) /\ ~confData[d].useLoading /\ confData[d].pending = 0
         manual == cfg.history /\ invoked /\ sync \in {"setLoadingTrue", "setLoadingFalse"}
         S0 == IF blocked THEN St ELSE handleConfirmationTrue(St, d, sync, result)
         S1 == [S0 EXCEPT !.confData[d].manual = @ \/ manual]
     IN /\ ~invoked => (sync = "none" /\ result = "value")
        /\ Set(IF invoked /\ result = "promise"
                 THEN [S1 EXCEPT !.confData[d].auto = auto] ELSE S1,
               IF invoked
                 THEN [op |-> "confirmClick", id |-> d, result |-> result]
                 ELSE E("confirmClick", d))

\* the cancel button or the dialog's close button
CancelClick(d, btn) ==
  /\ ConfCreated(d) /\ Attached(St, ConfElem(d))
  /\ confData[d].calls < MaxCalls
  /\ Set(IF confData[d].isLoading THEN St ELSE handleConfirmationFalse(St, d),
         E(btn, d))

\* the cancel button, with what the cancel handler does
CancelWith(d, result) ==
  /\ ConfCreated(d) /\ Attached(St, ConfElem(d))
  /\ confData[d].calls < MaxCalls
  /\ Set(cancel(St, d, result).state,
         [op |-> "cancelWith", id |-> d,
          result |-> IF cancel(St, d, result).thrown THEN "thrown" ELSE result])

PromiseResolve(d) ==
  /\ confData[d].pending > 0
  /\ Set(AfterAwait(St, d), E("resolve", d))

PromiseReject(d) ==
  /\ confData[d].pending > 0
  /\ Set(AfterReject(St, d), E("reject", d))

\* the caller uses the control object returned by conf() while the dialog is shown
HandleSetLoading(d, loading) ==
  /\ ConfCreated(d) /\ Attached(St, ConfElem(d))
  /\ Set([setLoading(St, d, loading) EXCEPT !.confData[d].manual = cfg.history],
         E(IF loading THEN "setLoadingTrue" ELSE "setLoadingFalse", d))

HandleClose(d) ==
  /\ ConfCreated(d) /\ Attached(St, ConfElem(d))
  /\ Set(cleanupAndClose(St, d), E("handleClose", d))

(***************************************************************************)
(* Specifications.  Each explores the same program on a part of its        *)
(* inputs; cfg tells how many toasts and dialogs a behaviour may create    *)
(* and whether the event history is kept.                                  *)
(***************************************************************************)
TwoDefault == <<[timeout |-> 0], [timeout |-> 0]>>

\* Confirmations with every handler behaviour and the event history: two
\* instances, dialogs opened one after the other.
NextConf ==
  \/ Tick
  \/ Escape
  \/ \E i \in Insts, c \in ConfCalls : Conf(i, c)
  \/ \E d \in ConfIds, s \in SyncEffects, r \in Results : ConfirmClick(d, s, r)
  \/ \E d \in ConfIds, b \in {"cancelClick", "closeClick"} : CancelClick(d, b)
  \/ \E d \in ConfIds : PromiseResolve(d)
  \/ \E d \in ConfIds : PromiseReject(d)
  \/ \E d \in ConfIds, b \in BOOLEAN : HandleSetLoading(d, b)
  \/ \E d \in ConfIds : HandleClose(d)

SpecConf ==
  /\ Built([history |-> TRUE, toasts |-> 0, confs |-> HistConfs,
            attached |-> HistAttached], TwoDefault)
  /\ [][NextConf]_vars

\* The confirmation slot: more dialogs, a new one may open while the previous
\* one still plays its exit animation; handlers leave the loading state alone.
NextSlot ==
  \/ Tick
  \/ Escape
  \/ \E i \in Insts, c \in ConfCalls : Conf(i, c)
  \/ \E d \in ConfIds, r \in Results : ConfirmClick(d, "none", r)
  \/ \E d \in ConfIds, b \in {"cancelClick", "closeClick"} : CancelClick(d, b)
  \/ \E d \in ConfIds : PromiseResolve(d)
  \/ \E d \in ConfIds : PromiseReject(d)
  \/ \E d \in ConfIds : HandleClose(d)

SpecSlot ==
  /\ Built([history |-> FALSE, toasts |-> 0, confs |-> MaxConfs,
            attached |-> MaxAttached], TwoDefault)
  /\ [][NextSlot]_vars

\* The queue: up to NumInst instances, toasts without auto-dismiss.
NextQueue ==
  \/ \E o \in CtorOptions : New(o)
  \/ \E i \in Insts, k \in Types : Show(i, k, [timeout |-> 0])
  \/ \E i \in Insts, k \in Types : ShowFails(i, k, [timeout |-> 0])
  \/ \E i \in Insts, o \in {[timeout |-> 0], [timeout |-> 0, primaryColor |-> TRUE]} :
        Custom(i, o)
  \/ \E t \in ToastIds : Dismiss(t)
  \/ \E i \in Insts : DismissAll(i, "")
  \/ Tick
  \/ Escape

SpecQueue ==
  /\ Start([history |-> FALSE, toasts |-> MaxToasts, confs |-> 0, attached |-> 0])
  /\ [][NextQueue]_vars

\* Timers: one instance, toasts with auto-dismiss and pause on hover.
NextTimer ==
  \/ \E o \in ShowOpts : Show(1, "success", o)
  \/ \E t \in ToastIds : Dismiss(t)
  \/ \E t \in ToastIds : MouseEnter(t)
  \/ \E t \in ToastIds : MouseLeave(t)
  \/ \E t \in ToastIds : TimerFire(t)
  \/ Tick

InitTimer ==
  Built([history |-> FALSE, toasts |-> TimedToasts, confs |-> 0, attached |-> 0],
        <<[position |-> "top-right", maxToasts |-> 1]>>)

SpecTimer == InitTimer /\ [][NextTimer]_vars

\* The same where time advances, due timers fire, and a pointer that has
\* entered a toast leaves it again.
SpecTimerFair ==
  /\ SpecTimer
  /\ WF_vars(Tick)
  /\ \A t \in ToastIds : WF_vars(TimerFire(t))
  /\ \A t \in ToastIds : WF_vars(toastData[t].inside /\ MouseLeave(t))

\* Toast handles: one instance with the default options, toasts without
\* auto-dismiss, the event history.
NextHandle ==
  \/ \E k \in Types : Show(1, k, [timeout |-> 0])
  \/ \E t \in ToastIds : Dismiss(t)
  \/ Tick

SpecHandle ==
  /\ Built([history |-> TRUE, toasts |-> MaxToasts, confs |-> 0, attached |-> 0],
           <<[position |-> "top-right"]>>)
  /\ [][NextHandle]_vars

\* Persistent toasts: one instance with the default options, toasts shown
\* with a per-call timeout of 0 or 1, pointer events, the event history.
NextPersistent ==
  \/ \E o \in {[timeout |-> 0], [timeout |-> 1]} : Show(1, "success", o)
  \/ \E t \in ToastIds : Dismiss(t)
  \/ \E t \in ToastIds : MouseEnter(t)
  \/ \E t \in ToastIds : MouseLeave(t)
  \/ \E t \in ToastIds : TimerFire(t)
  \/ Tick

SpecPersistent ==
  /\ Built([history |-> TRUE, toasts |-> TimedToasts, confs |-> 0, attached |-> 0],
           <<[position |-> "top-right"]>>)
  /\ [][NextPersistent]_vars

\* Instance defaults: one instance constructed with timeout 0, toasts shown
\* without a per-call timeout.
NextDefault ==
  \/ \E k \in Types : Show(1, k, [description |-> "text"])
  \/ \E t \in ToastIds : Dismiss(t)
  \/ \E t \in ToastIds : TimerFire(t)
  \/ Tick

SpecDefault ==
  /\ Built([history |-> FALSE, toasts |-> TimedToasts, confs |-> 0, attached |-> 0],
           <<[timeout |-> 0]>>)
  /\ [][NextDefault]_vars

\* Kinds: one instance without pause on hover, toasts of several kinds with
\* and without auto-dismiss, update() and dismissAll(), the event history.
UpdateTypes == Types \cup {"bogus"}
FilterTypes == Types \cup {"", "custom"}

NextKinds ==
  \/ \E k \in Types, o \in {[timeout |-> 0], [timeout |-> 2]} : Show(1, k, o)
  \/ Custom(1, [timeout |-> 0, primaryColor |-> TRUE])
  \/ \E t \in ToastIds, k \in UpdateTypes : Update(t, k)
  \/ \E k \in FilterTypes : DismissAll(1, k)
  \/ \E t \in ToastIds : TimerFire(t)
  \/ Tick

SpecKinds ==
  /\ Built([history |-> TRUE, toasts |-> MaxToasts, confs |-> 0, attached |-> 0],
           <<[position |-> "top-right", pauseOnHover |-> FALSE]>>)
  /\ [][NextKinds]_vars

\* Exit animations: instances at every position (and at one that is not
\* valid), toasts without auto-dismiss and their removal.
PositionOptions ==
  {[position |-> p] : p \in validPositions} \cup {[position |-> "middle"]}

NextExit ==
  \/ \E o \in PositionOptions : New(o)
  \/ \E i \in Insts : Show(i, "success", [timeout |-> 0])
  \/ \E t \in ToastIds : Dismiss(t)
  \/ Tick

SpecExit ==
  /\ Start([history |-> FALSE, toasts |-> TimedToasts, confs |-> 0, attached |-> 0])
  /\ [][NextExit]_vars

\* Focus: dialogs, the timer that gives them their first focus, the Tab key.
NextFocus ==
  \/ Tick
  \/ Escape
  \/ \E i \in Insts, c \in ConfCalls : Conf(i, c)
  \/ \E d \in ConfIds : FocusTimer(d)
  \/ \E b \in BOOLEAN : Tab(b)
  \/ \E d \in ConfIds : CancelClick(d, "cancelClick")

SpecFocus ==
  /\ Built([history |-> FALSE, toasts |-> 0, confs |-> HistConfs,
            attached |-> HistAttached], <<[timeout |-> 0]>>)
  /\ [][NextFocus]_vars

\* update(): one instance with the default options, toasts of type success
\* with auto-dismiss and pause on hover.
NextUpdate ==
  \/ Show(1, "success", [timeout |-> 1])
  \/ \E t \in ToastIds, k \in UpdateTypes : Update(t, k)
  \/ \E t \in ToastIds : MouseEnter(t)
  \/ \E t \in ToastIds : MouseLeave(t)
  \/ \E t \in ToastIds : TimerFire(t)
  \/ Tick

SpecUpdate ==
  /\ Built([history |-> FALSE, toasts |-> TimedToasts, confs |-> 0, attached |-> 0],
           <<[position |-> "top-right"]>>)
  /\ [][NextUpdate]_vars

\* Messages: one instance with maxToasts 1, show() with every message, the
\* event history.
NextMessage ==
  \/ \E m \in Messages : ShowMessage(1, m, "success", [timeout |-> 1])
  \/ \E t \in ToastIds : Dismiss(t)
  \/ \E t \in ToastIds : TimerFire(t)
  \/ Tick

SpecMessage ==
  /\ Built([history |-> TRUE, toasts |-> MaxToasts, confs |-> 0, attached |-> 0],
           <<[position |-> "top-right", maxToasts |-> 1, pauseOnHover |-> FALSE]>>)
  /\ [][NextMessage]_vars

\* Everything together.
\* Settlement after a close by the caller: handlers return awaitables and may
\* call the close() they are given; the caller may close through the control
\* object; nothing else closes a dialog.
NextSettle ==
  \/ Tick
  \/ \E i \in Insts, c \in ConfCalls : Conf(i, c)
  \/ \E d \in ConfIds, s \in {"none", "close"} : ConfirmClick(d, s, "promise")
  \/ \E d \in ConfIds : HandleClose(d)
  \/ \E d \in ConfIds : PromiseResolve(d)

SpecSettle ==
  /\ Built([history |-> FALSE, toasts |-> 0, confs |-> MaxConfs,
            attached |-> MaxAttached], TwoDefault)
  /\ [][NextSettle]_vars

\* Call patterns: dialogs opened one after the other with every pattern,
\* confirmed or cancelled, handlers returning plain values.
NextShapes ==
  \/ Tick
  \/ \E c \in ShapeCalls : Conf(1, c)
  \/ \E d \in ConfIds : ConfirmClick(d, "none", "value")
  \/ \E d \in ConfIds : CancelClick(d, "cancelClick")

SpecShapes ==
  /\ Built([history |-> TRUE, toasts |-> 0, confs |-> HistConfs,
            attached |-> HistAttached], <<[timeout |-> 0]>>)
  /\ [][NextShapes]_vars

\* Cancel handlers that return, return an awaitable or throw, on dialogs
\* that load or not.
NextCancel ==
  \/ Tick
  \/ \E c \in ConfCalls : Conf(1, c)
  \/ \E d \in ConfIds, r \in Results : CancelWith(d, r)
  \/ \E d \in ConfIds, b \in BOOLEAN : HandleSetLoading(d, b)

SpecCancel ==
  /\ Built([history |-> TRUE, toasts |-> 0, confs |-> HistConfs,
            attached |-> HistAttached], <<[timeout |-> 0]>>)
  /\ [][NextCancel]_vars

\* Overlays: dialogs opened and cancelled, conf() calls that fail while the
\* dialog is built.
NextOverlay ==
  \/ Tick
  \/ \E i \in Insts, c \in ConfCalls : Conf(i, c)
  \/ \E i \in Insts, c \in ConfCalls : ConfFails(i, c)
  \/ \E d \in ConfIds : CancelClick(d, "cancelClick")

SpecOverlay ==
  /\ Built([history |-> FALSE, toasts |-> 0, confs |-> MaxConfs,
            attached |-> MaxAttached], TwoDefault)
  /\ [][NextOverlay]_vars

\* Toasts and dialogs together: one instance at position center, where the
\* dialogs are placed too, with maxToasts 1.
NextMixed ==
  \/ Tick
  \/ Escape
  \/ Show(1, "success", [timeout |-> 0])
  \/ DismissAll(1, "")
  \/ Conf(1, [a2 |-> "function", a3 |-> "none", onConfirm |-> FALSE,
              onCancel |-> FALSE, loading |-> FALSE])
  \/ \E d \in ConfIds : CancelClick(d, "cancelClick")

SpecMixed ==
  /\ Built([history |-> TRUE, toasts |-> TimedToasts, confs |-> HistConfs,
            attached |-> MaxAttached], <<[position |-> "center", maxToasts |-> 1]>>)
  /\ [][NextMixed]_vars

Next ==
  NextConf \/ NextQueue \/ NextTimer \/ NextHandle \/ NextPersistent \/ NextDefault
  \/ NextKinds \/ NextExit \/ NextFocus \/ NextUpdate \/ NextMessage

Spec ==
  /\ Start([history |-> FALSE, toasts |-> MaxToasts, confs |-> MaxConfs,
            attached |-> MaxAttached])
  /\ [][Next]_vars

(***************************************************************************)
(* Properties.                                                             *)
(***************************************************************************)

\* C1: in every reachable state at most one confirmation dialog is open
\* (opened by conf() and not yet closed), whatever the instances.
C1_AtMostOneOpen == Cardinality({d \in ConfIds : Open(St, d)}) <= 1

\* C2: a conf() call made while a confirmation dialog is open creates no
\* dialog and leaves every dialog's state and every instance's queue as is.
C2_NoSecondDialog ==
  [][((\E d \in ConfIds : Open(St, d)) /\ (\E i \in Insts, c \in ConfCalls : Conf(i, c)))
       => (nextConf' = nextConf /\ confData' = confData /\ activeToasts' = activeToasts)]_vars

\* C3: an instance configured with maxToasts = N > 0 never has more than N
\* active toasts (getActiveCount() <= N), whichever method admitted them.
C3_AtMostMaxToasts ==
  \A i \in 1..Len(instances) :
    instances[i].maxToasts > 0 => getActiveCount(St, i) <= instances[i].maxToasts

\* C4: when a confirm handler has thrown, or the awaitable it returned has
\* rejected, the dialog is closed, its loading is false and it does not hold
\* the confirmation slot.
C4_FailedHandlerCloses ==
  ((ev.op = "confirmClick" /\ ev.result = "throw") \/ ev.op = "reject") =>
    /\ ~Open(St, ev.id)
    /\ ~confData[ev.id].isLoading
    /\ globalActiveConfirmation # ev.id

C4_Witness ==
  /\ ev.op = "reject"
  /\ Attached(St, ConfElem(ev.id)) /\ ~Open(St, ev.id)
  /\ ~confData[ev.id].isLoading
  /\ globalActiveConfirmation = 0

\* C5 as stated: once the awaitable returned to a confirm activated on an
\* open, non-loading dialog whose setLoading was never called has resolved,
\* the dialog is closed and its loading is false.
C5_ResolvedNotLoading ==
  (ev.op = "resolve" /\ confData[ev.id].auto) =>
    (~Open(St, ev.id) /\ ~confData[ev.id].isLoading)

\* C5 amended: confirm activated on an open, non-loading dialog whose
\* setLoading was never called, with a handler returning an awaitable, makes
\* loading true in the same step (cancel and close disabled); once the
\* awaitable resolves the dialog is closed, and its loading is false if its
\* element was still attached at that moment.
C5_AutoLoading ==
  [][\A d \in ConfIds :
       /\ (/\ Open(St, d) /\ ~confData[d].isLoading /\ ~confData[d].useLoading
           /\ \E s \in {"none", "close"} : ConfirmClick(d, s, "promise"))
          => (confData'[d].isLoading /\ confData'[d].loadingClass
              /\ confData'[d].cancelDisabled)
       /\ (PromiseResolve(d) /\ confData[d].auto)
          => /\ ~Open(St, d)'
             /\ Attached(St, ConfElem(d)) => ~confData'[d].isLoading]_vars

C5_Witness ==
  /\ ev.op = "resolve" /\ confData[ev.id].auto
  /\ Attached(St, ConfElem(ev.id)) /\ ~Open(St, ev.id)
  /\ ~confData[ev.id].isLoading

\* C6: while an open dialog's loading is true, the cancel button, the close
\* button and Escape invoke no handler of any dialog and leave the dialog
\* open and as it is, and the confirm button does not invoke its handler
\* again.
C6_LoadingBlocks ==
  [][\A d \in ConfIds :
       (Open(St, d) /\ confData[d].isLoading) =>
         /\ ((\E b \in {"cancelClick", "closeClick"} : CancelClick(d, b)) \/ Escape)
              => /\ \A x \in ConfIds : confData'[x].calls = confData[x].calls
                 /\ confData'[d] = confData[d]
                 /\ Open(St, d)'
         /\ (\E s \in SyncEffects, r \in Results : ConfirmClick(d, s, r))
              => (confData'[d].calls = confData[d].calls /\ Open(St, d)')]_vars

C6_Witness ==
  /\ ev.op = "escape" /\ ev.id # 0
  /\ Open(St, ev.id) /\ confData[ev.id].isLoading
  /\ confData[ev.id].calls = 1 /\ confData[ev.id].pending = 1

\* C7: the result handlers of a dialog (onConfirm, onCancel or the unified
\* callback) are invoked at most once in total.
C7_HandlersAtMostOnce == \A d \in ConfIds : confData[d].calls <= 1

\* C8: for a toast with timeout T > 0 and pause on hover, under alternating
\* enter and leave events, the remaining time while paused and the delay of
\* the timer started at each resume equal T minus the time the countdown has
\* run, so the timer is due exactly when the countdown has run for T.
C8_PauseResumeAccounting ==
  \A t \in ToastIds :
    (Created(t) /\ toastData[t].hover /\ toastData[t].alternating) =>
      /\ toastData[t].isPaused => toastData[t].remainingTime = toastData[t].T - toastData[t].ran
      /\ toastData[t].timer # NoTimer => toastData[t].timer = toastData[t].T - toastData[t].ran

\* C9: every toast shown with timeout > 0 is eventually out of the queue and
\* detached, when time advances, due timers fire, enter and leave events
\* alternate and every enter is followed by a leave.  A toast leaves the
\* queue on its own only through its timer, and only mouseleave starts one
\* again; so while such a toast is queued and the pointer is away from it,
\* its timer is pending.
C9_TimerPendingWhileQueued ==
  \A t \in ToastIds :
    (/\ Created(t) /\ toastData[t].T > 0
     /\ toastData[t].alternating /\ ~toastData[t].inside
     /\ \E i \in Insts : t \in Range(activeToasts[i]))
      => toastData[t].timer # NoTimer

\* The same as a property of whole behaviours, for SpecTimerFair.
EventuallyRemoved ==
  \A t \in ToastIds :
    ([]toastData[t].alternating) =>
      ((Created(t) /\ toastData[t].T > 0)
         ~> (/\ ~Attached(St, t)
             /\ \A i \in Insts : t \notin Range(activeToasts[i])))

\* C10: Escape pressed with no confirmation and at least two toasts present
\* dismisses the most recently admitted toast and no other.
C10_EscapeDismissesNewest ==
  [][LET present == {t \in ToastIds : Attached(St, t) /\ removeTimer[t] = NoTimer}
         newest == CHOOSE t \in present : \A u \in present : u <= t
     IN (Escape /\ globalActiveConfirmation = 0 /\ Cardinality(present) >= 2)
          => \A t \in ToastIds : (removeTimer'[t] # removeTimer[t]) <=> (t = newest)]_vars

\* C11: Escape pressed while a confirmation dialog is open and not loading
\* closes that dialog and frees the slot, and dismisses no toast.
C11_EscapeClosesDialog ==
  [][\A d \in ConfIds :
       (Escape /\ Open(St, d) /\ ~confData[d].isLoading)
         => /\ ~Open(St, d)'
            /\ globalActiveConfirmation' = 0
            /\ \A t \in ToastIds : removeTimer'[t] = removeTimer[t]]_vars

\* C12: Escape on an open dialog that is not loading invokes the cancel
\* handler (onCancel, or the unified callback with false) as the cancel button
\* does.
C12_EscapeInvokesCancel ==
  [][\A d \in ConfIds :
       (Escape /\ Open(St, d) /\ ~confData[d].isLoading)
         => confData'[d].calls = handleConfirmationFalse(St, d).confData[d].calls]_vars

\* C13: dismiss() on a toast that has already been dismissed, whether its
\* exit animation is still playing or its element is already detached,
\* changes nothing: the queues, the records and the pending removal stay as
\* they are, so the element is detached once.
C13_SecondDismissNoEffect ==
  [][\A t \in ToastIds :
       (/\ Created(t)
        /\ ~Attached(St, t) \/ removeTimer[t] # NoTimer
        /\ Dismiss(t))
         => St' = St]_vars

C13_Witness ==
  /\ ev.op = "dismiss"
  /\ Created(ev.id) /\ ~Attached(St, ev.id)
  /\ removeTimer[ev.id] = NoTimer
  /\ getActiveCount(St, 1) = 1

\* C14: a toast shown with a per-call timeout of 0 never has an auto-dismiss
\* timer, whatever pointer events reach it, and dismiss() takes it out of the
\* queue.
C14_NoTimerForTimeoutZero ==
  [][\A t \in ToastIds :
       /\ (Created(t)' /\ toastData'[t].T = 0)
            => (toastData'[t].timer = NoTimer /\ ~toastData'[t].timeout)
       /\ (/\ Created(t) /\ toastData[t].T = 0
           /\ t \in Range(activeToasts[toastData[t].inst])
           /\ Dismiss(t))
            => \A i \in Insts : t \notin Range(activeToasts'[i])]_vars

C14_Witness ==
  /\ ev.op = "mouseleave"
  /\ Created(ev.id) /\ toastData[ev.id].T = 0
  /\ ev.id \in Range(activeToasts[1])
  /\ toastData[ev.id].timer = NoTimer
  /\ \E u \in ToastIds : toastData[u].timer > 0

\* C15: on an instance constructed with timeout 0, a toast shown without a
\* per-call timeout gets no auto-dismiss timer (SpecDefault: the one instance
\* is constructed with timeout 0 and no show() passes a timeout).
C15_NoTimerByDefault ==
  \A t \in ToastIds :
    Created(t) => (toastData[t].timer = NoTimer /\ ~toastData[t].timeout)

\* C16: at most one confirmation dialog element is attached to the document,
\* a closed dialog still playing its exit animation included.
C16_AtMostOneAttached ==
  Cardinality({d \in ConfIds : Attached(St, ConfElem(d))}) <= 1

\* C17: two instances constructed with the same position and the same
\* maxToasts = N > 0 share one bound: together they never have more than N
\* active toasts at that position (toasts admitted by show(), not showCustom()).
C17_SharedBound ==
  \A i, j \in 1..Len(instances) :
    (/\ i # j
     /\ instances[i].position = instances[j].position
     /\ instances[i].maxToasts = instances[j].maxToasts
     /\ instances[i].maxToasts > 0
     /\ \A t \in Range(activeToasts[i]) \cup Range(activeToasts[j]) :
          toastData[t].kind # "custom")
      => getActiveCount(St, i) + getActiveCount(St, j) <= instances[i].maxToasts

C19_CloseFreesSlot ==
  [][/\ \A d \in ConfIds :
          (Open(St, d) /\ ~Open(St, d)')
            => (globalActiveConfirmation' = 0 /\ ~ConfIsDuplicate(St)')
     /\ (globalActiveConfirmation = 0 /\ \E i \in Insts, c \in ConfCalls : Conf(i, c))
          => \E n \in ConfIds :
               /\ n = nextConf + 1 /\ nextConf' = n
               /\ Open(St, n)'
               /\ globalActiveConfirmation' = n]_vars

C19_Witness ==
  /\ ev.op = "conf" /\ ev.id = 2
  /\ ~Attached(St, ConfElem(1))
  /\ Open(St, 2) /\ globalActiveConfirmation = 2

\* C20: once a dialog has been closed, by whatever path, its Tab key handler
\* is no longer registered and the restoration of the focus has been
\* scheduled (checked while the closed dialog plays its exit animation).
C20_ClosedDialogCleanedUp ==
  \A d \in ConfIds :
    (ConfCreated(d) /\ Attached(St, ConfElem(d)) /\ ~Open(St, d))
      => (~confData[d].tabHandler /\ confData[d].focusRestore)

\* C21: dismissAll() takes every active toast of the instance out of the
\* queue (getActiveCount() becomes 0), cancels its timer and starts its exit;
\* dismissAll(type) does so for exactly the active toasts whose element
\* carries that type, and leaves the other toasts, their order in the queue,
\* their records and their timers as they are.
C21_DismissAllExact ==
  [][\A i \in Insts, type \in FilterTypes :
       DismissAll(i, type) =>
         LET hit == {t \in Range(activeToasts[i]) :
                       type = "" \/ type \in classList(toastData[t])}
         IN /\ activeToasts'[i] = SelectSeq(activeToasts[i], LAMBDA t : t \notin hit)
            /\ type = "" => getActiveCount(St, i)' = 0
            /\ \A t \in hit : toastData'[t].timer = NoTimer /\ removeTimer'[t] # NoTimer
            /\ \A t \in ToastIds \ hit :
                 toastData'[t] = toastData[t] /\ removeTimer'[t] = removeTimer[t]
            /\ \A j \in Insts \ {i} : activeToasts'[j] = activeToasts[j]
            /\ container' = container]_vars

C21_Witness ==
  /\ ev.op = "dismissAll" /\ ev.result = "success"
  /\ Len(activeToasts[1]) = 1
  /\ toastData[activeToasts[1][1]].kind = "error"
  /\ toastData[activeToasts[1][1]].timer > 0
  /\ Cardinality({t \in ToastIds : Created(t) /\ toastData[t].T > 0
                    /\ toastData[t].timer = NoTimer /\ removeTimer[t] # NoTimer}) = 2

C23_OneEscapeListener ==
  [][/\ Len(instances') > 0 => keyboard'.listeners = 1
     /\ Escape => St' = escape(St)]_vars

C23_Witness ==
  /\ Len(instances) = 2
  /\ keyboard.setup /\ keyboard.listeners = 1
  /\ \E t \in ToastIds : removeTimer[t] # NoTimer

\* C24: while one dialog is attached, open and not loading, and the focus is
\* on one of its controls, Tab moves the focus to the control that follows it
\* in the order cancel, confirm, close, and Shift+Tab to the one that
\* precedes it, wrapping around; the first focus, given by the timer of
\* conf(), is the confirm button.
C24_TabCyclesFromFocus ==
  [][\A d \in ConfIds :
       /\ (FocusTimer(d) /\ Open(St, d) /\ ~confData[d].isLoading)
            => activeElement' = [d |-> d, c |-> "confirm"]
       /\ (/\ Open(St, d) /\ ~confData[d].isLoading
           /\ \A x \in ConfIds \ {d} : ~Attached(St, ConfElem(x))
           /\ activeElement.d = d)
            => \A k \in 1..3 :
                 activeElement.c = focusableElements[k] =>
                   /\ Tab(FALSE) => activeElement' = [d |-> d, c |-> focusableElements[(k % 3) + 1]]
                   /\ Tab(TRUE) => activeElement' = [d |-> d, c |-> focusableElements[((k + 1) % 3) + 1]]]_vars

\* C25: update() changes nothing but the type classes of the toast's element
\* (message and description are not part of the state): the remaining time,
\* the pending timer, the paused flag, the queues and their order, and every
\* other toast stay as they are; on a toast whose element is detached it
\* changes nothing at all.
C25_UpdateFrame ==
  [][\A t \in ToastIds, type \in UpdateTypes :
       Update(t, type) =>
         /\ St' = [St EXCEPT !.toastData[t].kind = toastData'[t].kind,
                             !.toastData[t].added = toastData'[t].added]
         /\ ~Attached(St, t) => St' = St]_vars

\* every toast is shown with type success: one of type error has been updated
C25_Witness ==
  \E t \in ToastIds :
    /\ toastData[t].kind = "error"
    /\ toastData[t].isPaused /\ toastData[t].remainingTime = 1
    /\ t \in Range(activeToasts[1])
    /\ \E u \in ToastIds : toastData[u].timer = 1 /\ toastData[u].kind = "success"

\* C26: a show() call during which the creation or the insertion of the
\* element fails leaves the state as it is: nothing is admitted, nothing is
\* evicted, no timer is started.
C26_FailedShowNoEffect ==
  [][\A i \in Insts, k \in Types :
       ShowFails(i, k, [timeout |-> 0]) => St' = St]_vars

\* C27: show() with a message that is blank (empty, or white space only),
\* given as a string or as a value whose text is blank, changes nothing: no
\* toast is admitted, none is evicted, no timer is started; it returns no
\* handle.
C27_BlankMessageIgnored ==
  [][\A m \in {[type |-> "string", text |-> <<>>],
               [type |-> "string", text |-> <<" ", " ">>],
               [type |-> "array", text |-> <<>>],
               [type |-> "array", text |-> <<" ">>]} :
       ShowMessage(1, m, "success", [timeout |-> 1])
         => (St' = St /\ ev'.result = "undefined")]_vars

C27_Witness ==
  /\ ev.op = "showMessage" /\ ev.result = "undefined"
  /\ Len(activeToasts[1]) = 1
  /\ toastData[activeToasts[1][1]].timer = 1

\* C28: when show() evicts a toast from the queue of its instance, the
\* auto-dismiss timer of that toast is cancelled: once the new toast is
\* admitted, no evicted toast has a timer pending.
C28_EvictedTimerCancelled ==
  [][\A o \in ShowOpts :
       Show(1, "success", o)
         => \A t \in ToastIds :
              (IndexOf(activeToasts[1], t) > 0 /\ IndexOf(activeToasts'[1], t) = 0)
                => toastData'[t].timer = NoTimer]_vars

\* C29: when the caller has closed a dialog (through the close() given to the
\* handler or through the control object) while the awaitable returned by its
\* one handler invocation is pending, the settlement of that awaitable closes
\* nothing: the confirmation slot and the set of open dialogs stay as they
\* are, so the slot of a dialog opened in the meantime is not released.
C29_LateSettlementInert ==
  [][\A d \in ConfIds :
       (PromiseResolve(d) /\ ~Open(St, d) /\ confData[d].calls = 1)
         => /\ globalActiveConfirmation' = globalActiveConfirmation
            /\ \A x \in ConfIds : Open(St, x)' = Open(St, x)]_vars

\* C30: a pointer-enter event on a toast that is already paused, no resume
\* having happened since the pause, leaves its remaining time as it is.
C30_SecondPauseNoEffect ==
  [][\A t \in ToastIds :
       (MouseEnter(t) /\ toastData[t].hover /\ toastData[t].isPaused)
         => toastData'[t].remainingTime = toastData[t].remainingTime]_vars

\* C31: a pointer-leave event on a queued toast that is paused with no time
\* remaining (remainingTime <= 0) completes it at once: after the event the
\* toast has left the queue, or its removal is due without delay.
C31_ResumeWithoutTimeCompletes ==
  [][\A t \in ToastIds :
       (/\ MouseLeave(t) /\ toastData[t].hover
        /\ toastData[t].isPaused /\ toastData[t].remainingTime <= 0
        /\ IndexOf(activeToasts[1], t) > 0)
         => (IndexOf(activeToasts'[1], t) = 0 \/ toastData'[t].timer = 0)]_vars

\* C32: in every reachable state the remaining time of every toast is at
\* least 0.
C32_RemainingTimeNotNegative ==
  \A t \in ToastIds : toastData[t].remainingTime >= 0

\* C33: a toast that has left the queue has no auto-dismiss timer pending,
\* whatever pointer events reach its element while it plays its exit
\* animation (SpecPersistent: nothing is evicted, so a toast leaves the queue
\* by dismiss() or by its own timer firing).
C33_NoTimerAfterDismiss ==
  \A t \in ToastIds :
    (Created(t) /\ t \notin Range(activeToasts[toastData[t].inst]))
      => toastData[t].timer = NoTimer

\* C34: the firing of a toast's auto-dismiss timer and a dismiss() of the same
\* toast, in whatever order and however often, each leave the queue as it was
\* without that toast: the toast is taken out once, and the other toasts and
\* their order are unchanged.
C34_RemovedOnceOthersKept ==
  [][\A t \in ToastIds :
       (TimerFire(t) \/ Dismiss(t))
         => activeToasts'[1] = SelectSeq(activeToasts[1], LAMBDA u : u # t)]_vars

C34_Witness ==
  /\ ev.op = "dismiss"
  /\ toastData[ev.id].T > 0 /\ toastData[ev.id].ran = toastData[ev.id].T
  /\ Attached(St, ev.id) /\ ev.id \notin Range(activeToasts[1])
  /\ toastData[ev.id].timer = NoTimer
  /\ Len(activeToasts[1]) = 1

\* C35: a confirm activated on an open dialog on which setLoading has never
\* been called, whose handler returns a value that is not awaitable without
\* calling setLoading (or which has no handler), closes the dialog in the
\* same step.
C35_PlainConfirmCloses ==
  [][\A d \in ConfIds, s \in {"none", "close"} :
       (ConfirmClick(d, s, "value") /\ Open(St, d) /\ ~confData[d].useLoading)
         => (~Open(St, d)' /\ globalActiveConfirmation' = 0)]_vars

C35_Witness ==
  /\ ev.op = "confirmClick" /\ ev.result = "value"
  /\ ConfCreated(ev.id) /\ Attached(St, ConfElem(ev.id)) /\ ~Open(St, ev.id)
  /\ confData[ev.id].calls = 1 /\ ~confData[ev.id].useLoading
  /\ globalActiveConfirmation = 0

\* C36: for every call pattern of conf(), a dialog whose options carry
\* onConfirm or onCancel never has the unified callback invoked, on confirm
\* or on cancel; a dialog whose options carry neither has no handler invoked
\* but the unified callback.
C36_OneResultChannel ==
  \A d \in ConfIds :
    /\ confData[d].optHandlers => confData[d].unified = 0
    /\ ~confData[d].optHandlers => confData[d].unified = confData[d].calls

C36_Witness ==
  /\ ev.op = "cancelClick"
  /\ confData[ev.id].optHandlers /\ confData[ev.id].cbGiven
  /\ ~confData[ev.id].onCancel
  /\ confData[ev.id].calls = 0 /\ confData[ev.id].unified = 0
  /\ Attached(St, ConfElem(ev.id)) /\ ~Open(St, ev.id)

\* C37: a cancel on an open dialog that is not loading closes the dialog in
\* the same step, whether the cancel handler returns a value, returns a
\* pending awaitable or throws; no error reaches the caller.
C37_CancelAlwaysCloses ==
  [][\A d \in ConfIds, r \in Results :
       (CancelWith(d, r) /\ Open(St, d) /\ ~confData[d].isLoading)
         => (~Open(St, d)' /\ globalActiveConfirmation' = 0 /\ ev'.result = r)]_vars

C37_Witness ==
  /\ ev.op = "cancelWith" /\ ev.result = "throw"
  /\ confData[ev.id].onCancel /\ confData[ev.id].calls = 1
  /\ Attached(St, ConfElem(ev.id)) /\ ~Open(St, ev.id)
  /\ globalActiveConfirmation = 0

\* C38: an overlay exists only together with a confirmation dialog: when no
\* dialog element is attached and no overlay removal is pending, no overlay
\* is attached, also after a conf() call that fails while it builds the
\* dialog.
C38_NoOverlayWithoutDialog ==
  (/\ \A d \in ConfIds : ~Attached(St, ConfElem(d))
   /\ \A d \in ConfIds : confData[d].overlayTimer = NoTimer)
    => \A d \in ConfIds : ~confData[d].overlay

\* C39: while a toast is paused (the pointer has entered it and has not left,
\* or the pause was never resumed), no auto-dismiss timer is pending for it,
\* so its timer cannot fire: only dismiss(), eviction, dismissAll() or Escape
\* remove it.
C39_PausedNeverFires ==
  \A t \in ToastIds :
    (toastData[t].hover /\ (toastData[t].inside \/ toastData[t].isPaused))
      => toastData[t].timer = NoTimer

C39_Witness ==
  \E t \in ToastIds :
    /\ toastData[t].hover /\ toastData[t].inside /\ toastData[t].isPaused
    /\ toastData[t].T > 0 /\ toastData[t].sinceStart > toastData[t].T
    /\ t \in Range(activeToasts[1]) /\ Attached(St, t)
    /\ removeTimer[t] = NoTimer

\* C40: a confirmation dialog is never part of the toast queue: no dialog
\* element is in activeToasts, getActiveCount() counts toasts only, and neither
\* the eviction of show(), nor dismissAll(), nor Escape pressed while no
\* confirmation is registered closes or detaches a dialog.
C40_DialogOutsideQueue ==
  [][/\ \A i \in Insts, d \in ConfIds : ConfElem(d) \notin Range(activeToasts'[i])
     /\ \A i \in Insts :
          getActiveCount(St, i)' = Cardinality(Range(activeToasts'[i]) \cap ToastIds)
     /\ (\/ Show(1, "success", [timeout |-> 0])
         \/ DismissAll(1, "")
         \/ (Escape /\ globalActiveConfirmation = 0))
          => \A d \in ConfIds :
               /\ Open(St, d)' = Open(St, d)
               /\ removeTimer'[ConfElem(d)] = removeTimer[ConfElem(d)]
               /\ Attached(St, ConfElem(d))' = Attached(St, ConfElem(d))]_vars

C40_Witness ==
  /\ ev.op = "escape" /\ ev.id = 0
  /\ \E d \in ConfIds : Open(St, d) /\ parentNode(St, ConfElem(d)) = "center"
  /\ \E t \in ToastIds : removeTimer[t] # NoTimer /\ parentNode(St, t) = "center"
  /\ getActiveCount(St, 1) = 0

=============================================================================
